---- MODULE Spec2Model ----
(***************************************************************************)
(* Dirty-tracking entity model of dynamodb-orm (entity.ts): a tracked      *)
(* record is a plain target object behind a Proxy whose set/deleteProperty *)
(* traps record, per top-level attribute, a status in metaData.changes;    *)
(* calculateUpdateData reduces that state to a {set, remove} patch.        *)
(*                                                                         *)
(* Values are tagged records: k is the JavaScript kind of the value.       *)
(*   undef  the value undefined                                            *)
(*   hole   an array index with no own property                            *)
(*   prim   a primitive (number / string), v its value                     *)
(*   cat    the template string `TEST#${login}`, v the interpolated value  *)
(*   email  the template string `EMAIL#${email}`                            *)
(*   iso    the ISO string of the date with time t                          *)
(*   date   a Date, t its time, w whether it sits behind a Proxy           *)
(*   obj    an object, f its own data properties, w whether it is proxied  *)
(*   arr    an array, e its elements, w whether it is proxied              *)
(* Array property names are the strings "0", "1", ... as in JavaScript;    *)
(* element i of the JavaScript array is e[i + 1].                          *)
(***************************************************************************)
EXTENDS Integers, Sequences, FiniteSets, TLC

VARIABLES record, metaData, scenario, initial, hist, last, now, returned, pair, held

vars == <<record, metaData, scenario, initial, hist, last, now, returned, pair, held>>

\* Largest primitive value that the enumerated writes use.
MaxVal == 2

\* How many times the clock advances: one tick per timestamp a table
\* operation takes.
MaxTime == 2

\* Longest array the array operations build.
MaxLen == 3

---------------------------------------------------------------------------
\* Values

Undef == [k |-> "undef"]
Hole == [k |-> "hole"]
P(n) == [k |-> "prim", v |-> n]
Cat(v) == [k |-> "cat", v |-> v]
Email(v) == [k |-> "email", v |-> v]
Iso(t) == [k |-> "iso", t |-> t]
Date(t) == [k |-> "date", t |-> t, w |-> FALSE]
Obj(f) == [k |-> "obj", f |-> f, w |-> FALSE]
Arr(e) == [k |-> "arr", e |-> e, w |-> FALSE]

NoProps == [x \in {} |-> Undef]

IsContainer(v) == v.k \in {"obj", "arr"}

\* The array index a property name denotes (1-based), 0 when it is not an index.
Idx(p) ==
  CASE p = "0" -> 1 [] p = "1" -> 2 [] p = "2" -> 3 [] p = "3" -> 4 [] OTHER -> 0

Front(s) == SubSeq(s, 1, Len(s) - 1)
Last(s) == s[Len(s)]

\* target.hasOwnProperty(prop) for a data property of a container.
HasOwn(c, p) ==
  CASE c.k = "obj" -> p \in DOMAIN c.f
    [] c.k = "arr" -> p = "length" \/ (Idx(p) \in 1..Len(c.e) /\ c.e[Idx(p)] # Hole)
    [] OTHER -> FALSE

\* target[prop] for a data property of a container: undefined when it is not there.
GetOwn(c, p) ==
  IF ~HasOwn(c, p) THEN Undef
  ELSE IF c.k = "obj" THEN c.f[p]
  ELSE IF p = "length" THEN P(Len(c.e))
  ELSE c.e[Idx(p)]

\* Ordinary assignment target[prop] = value on a container; the length of
\* an array cuts the array or extends it with holes.
PutOwn(c, p, v) ==
  IF c.k = "obj"
  THEN [c EXCEPT !.f = [x \in (DOMAIN c.f) \cup {p} |-> IF x = p THEN v ELSE c.f[x]]]
  ELSE IF p = "length"
  THEN [c EXCEPT !.e = [i \in 1..v.v |-> IF i <= Len(c.e) THEN c.e[i] ELSE Hole]]
  ELSE [c EXCEPT !.e = [i \in 1..(IF Idx(p) > Len(c.e) THEN Idx(p) ELSE Len(c.e)) |->
                          IF i = Idx(p) THEN v
                          ELSE IF i <= Len(c.e) THEN c.e[i] ELSE Hole]]

\* Ordinary delete target[prop] on a container.
DelOwn(c, p) ==
  IF c.k = "obj"
  THEN [c EXCEPT !.f = [x \in (DOMAIN c.f) \ {p} |-> c.f[x]]]
  ELSE IF Idx(p) \in 1..Len(c.e) THEN [c EXCEPT !.e[Idx(p)] = Hole] ELSE c

RECURSIVE ValAt(_, _)
\* The value a chain of property reads reaches from v.
ValAt(v, path) ==
  IF path = <<>> THEN v
  ELSE IF IsContainer(v) THEN ValAt(GetOwn(v, path[1]), Tail(path))
  ELSE Undef

RECURSIVE PutAt(_, _, _)
\* v after the assignment v.path = x (the containers on the way exist).
PutAt(v, path, x) ==
  IF Len(path) = 1 THEN PutOwn(v, path[1], x)
  ELSE PutOwn(v, path[1], PutAt(GetOwn(v, path[1]), Tail(path), x))

RECURSIVE DelAt(_, _)
\* v after delete v.path.
DelAt(v, path) ==
  IF Len(path) = 1 THEN DelOwn(v, path[1])
  ELSE PutOwn(v, path[1], DelAt(GetOwn(v, path[1]), Tail(path)))

---------------------------------------------------------------------------
\* defineEntity: the schemas of the tests' TestEntity (tests/entity.test.ts,
\* tests/table.test.ts); scenario.computed is config.computed, each computed
\* attribute with its dependsOn list.

\* config.ttl || '_ttl'
ttl == "_ttl"

\* The dependsOn list of every computed attribute: config.computed plus the
\* built-in TTL attribute.
\* Slip: the TTL attribute is not added to the schema's computed attributes.
computed_SchemaOnly == scenario.computed

computed ==
  [key \in (DOMAIN scenario.computed) \cup {ttl} |->
     IF key = ttl THEN {"_expires"} ELSE scenario.computed[key]]

ComputedKeys == DOMAIN computed

\* getter.get(target) of a computed attribute.
getterGet(key, target) ==
  IF key = ttl
  THEN (IF GetOwn(target, "_expires").k = "date"
        THEN P(GetOwn(target, "_expires").t) ELSE Undef)
  ELSE IF key = "sk"
  THEN (IF GetOwn(target, "email") # Undef
        THEN Email(GetOwn(target, "email")) ELSE Undef)
  ELSE IF key = "place"
  THEN ValAt(target, <<"address", "city">>)
  ELSE Cat(GetOwn(target, "login"))

\* record.hasOwnProperty(attr) on the top-level target: data and accessor properties.
TopHasOwn(target, attr) == attr \in DOMAIN target.acc \/ HasOwn(target, attr)

\* record[attr] on the top-level target.
TopGet(target, attr) ==
  IF attr \in DOMAIN target.acc THEN getterGet(attr, target) ELSE GetOwn(target, attr)

RECURSIVE wrapProxy(_)
\* wrapProxy: every nested object and array is put behind a Proxy; an object
\* skips its Date fields, an array wraps every element of type object.
wrapProxy(target) ==
  CASE target.k = "obj" ->
         [target EXCEPT
            !.f = [x \in DOMAIN target.f |->
                     IF target.f[x].k \in {"obj", "arr"}
                     THEN wrapProxy(target.f[x]) ELSE target.f[x]],
            !.w = TRUE]
    [] target.k = "arr" ->
         [k |-> "arr",
          e |-> [i \in 1..Len(target.e) |->
                   IF target.e[i].k \in {"obj", "arr", "date"}
                   THEN wrapProxy(target.e[i]) ELSE target.e[i]],
          w |-> TRUE]
    [] OTHER -> [target EXCEPT !.w = TRUE]

\* The reverse index changed attribute -> computed attributes affected.
attrDepsOf(comp) ==
  [d \in UNION {comp[c] : c \in DOMAIN comp} |-> {c \in DOMAIN comp : d \in comp[c]}]

\* Slip: the wrapping assigns the proxies through the set trap, so every
\* container attribute starts out marked.
newMetaData_MarksContainers(data) ==
  [changes |-> [a \in {x \in DOMAIN data : IsContainer(data[x])} |-> "Updated"],
   attrDeps |-> attrDepsOf(computed)]

\* The tracking metadata of a new record.
newMetaData(data) == [changes |-> NoProps, attrDeps |-> attrDepsOf(computed)]

\* config.name, the name every entity of the model is defined with.
entityName == P(0)

\* Object.defineProperty(target, key, {enumerable: true, get}) for every
\* computed key: the accessors of the target, each with its configurable
\* flag. A key the spread of the data already put on the target keeps the
\* configurable: true of that data property; a new key gets the default false.
definedAccessors(data) == [key \in ComputedKeys |-> key \in DOMAIN data]

\* Slip: the reserved attributes are spread over the caller's data.
newTarget_SynthesizedWins(data) ==
  LET reserved == [_created |-> Date(now), _updated |-> Date(now), _type |-> entityName]
      names == ((DOMAIN reserved) \cup (DOMAIN data)) \ ComputedKeys
  IN [k |-> "obj",
      f |-> [x \in names |-> IF x \in DOMAIN reserved THEN reserved[x] ELSE data[x]],
      w |-> FALSE,
      acc |-> definedAccessors(data)]

\* The plain target: reserved attributes (new Date() is the current time),
\* then the caller's data spread over them; a computed key becomes an
\* accessor (field acc) and is no data property.
newTarget(data) ==
  LET reserved == [_created |-> Date(now), _updated |-> Date(now), _type |-> entityName]
      names == ((DOMAIN reserved) \cup (DOMAIN data)) \ ComputedKeys
  IN [k |-> "obj",
      f |-> [x \in names |-> IF x \in DOMAIN data THEN data[x] ELSE reserved[x]],
      w |-> FALSE,
      acc |-> definedAccessors(data)]

entityConstructor(data) ==
  [record |-> wrapProxy(newTarget(data)), metaData |-> newMetaData(data)]

---------------------------------------------------------------------------
\* The Proxy traps

\* The parentKey a proxy was created with: none ("") for the top-level
\* proxy, the top-level attribute name for every proxy below it.
parentKeyOf(path) == IF Len(path) > 1 THEN path[1] ELSE ""

\* target[prop] as the trap reads it.
targetGet(rec, path) ==
  IF Len(path) = 1 THEN TopGet(rec, path[1])
  ELSE GetOwn(ValAt(rec, Front(path)), Last(path))

\* Slip: a status once recorded is kept, a later one is dropped.
Mark_KeepFirst(changes, key, info) ==
  [x \in (DOMAIN changes) \cup {key} |-> IF x \in DOMAIN changes THEN changes[x] ELSE info]

\* Slip: changes is replaced by the one entry.
Mark_OnlyLast(changes, key, info) == [x \in {key} |-> info]

\* metaData.changes[key] = info
Mark(changes, key, info) ==
  [x \in (DOMAIN changes) \cup {key} |-> IF x = key THEN info ELSE changes[x]]

\* Slip: the dependent computed attributes are not marked.
updateDepsAttrs_None(prop, meta) == meta

updateDepsAttrs(prop, meta) ==
  IF prop \in DOMAIN meta.attrDeps
  THEN [meta EXCEPT !.changes =
          [x \in (DOMAIN meta.changes) \cup meta.attrDeps[prop] |->
             IF x \in meta.attrDeps[prop] THEN "Updated" ELSE meta.changes[x]]]
  ELSE meta

\* value === undefined && target[prop] !== undefined
setToUndefined(rec, path, value) == value = Undef /\ targetGet(rec, path) # Undef

\* Slip: every write is recorded as a removal.
setValueInfo_AlwaysRemoved(toUndefined) == "Removed"

\* Slip: a write of undefined is recorded like any other write.
setValueInfo_AlwaysUpdated(toUndefined) == "Updated"

\* The status the set trap records.
setValueInfo(toUndefined) == IF toUndefined THEN "Removed" ELSE "Updated"

\* Slip: the change is recorded under the property written, at any depth.
setChangesKey_Prop(parentKey, prop) == prop

\* parentKey || prop
setChangesKey(parentKey, prop) == IF parentKey # "" THEN parentKey ELSE prop

\* Slip: the computed attribute is an ordinary writable property.
ReflectSet_Writable(rec, path) == TRUE

\* Reflect.set: false on an accessor property without a setter.
ReflectSet(rec, path) == ~(Len(path) = 1 /\ Last(path) \in DOMAIN rec.acc)

\* Reflect.deleteProperty: false on a non-configurable property.
ReflectDeleteProperty(rec, path) ==
  ~(Len(path) = 1 /\ Last(path) \in DOMAIN rec.acc /\ ~rec.acc[Last(path)])

\* The target after a delete that Reflect.deleteProperty carried out: a
\* configurable accessor is removed from the target like a data property.
deleted(rec, path) ==
  IF Len(path) = 1 /\ path[1] \in DOMAIN rec.acc
  THEN [rec EXCEPT !.acc = [key \in (DOMAIN rec.acc) \ {path[1]} |-> rec.acc[key]]]
  ELSE DelAt(rec, path)

\* The set trap of the proxy around the container at Front(path).
setTrap(rec, meta, path, value) ==
  LET prop == Last(path)
      isArray == ValAt(rec, Front(path)).k = "arr"
      setterRes == ReflectSet(rec, path)
  IN IF ~setterRes THEN [ok |-> FALSE, record |-> rec, metaData |-> meta]
     ELSE [ok |-> TRUE,
           record |-> PutAt(rec, path, value),
           metaData |->
             IF ~isArray \/ prop # "length"
             THEN updateDepsAttrs(prop,
                    [meta EXCEPT !.changes =
                       Mark(meta.changes, setChangesKey(parentKeyOf(path), prop),
                            setValueInfo(setToUndefined(rec, path, value)))])
             ELSE meta]

\* Slip: a delete is recorded as an update, at the top level too.
deleteChange_AlwaysUpdated(parentKey, prop) ==
  [key |-> IF parentKey # "" THEN parentKey ELSE prop, info |-> "Updated"]

\* Slip: a delete is recorded as a removal of the owning attribute, at any depth.
deleteChange_AlwaysRemoved(parentKey, prop) ==
  [key |-> IF parentKey # "" THEN parentKey ELSE prop, info |-> "Removed"]

\* The key and status the deleteProperty trap records.
deleteChange(parentKey, prop) ==
  IF parentKey # "" THEN [key |-> parentKey, info |-> "Updated"]
  ELSE [key |-> prop, info |-> "Removed"]

\* The deleteProperty trap of the proxy around the container at Front(path).
deleteTrap(rec, meta, path) ==
  LET prop == Last(path)
      deleterRes == ReflectDeleteProperty(rec, path)
      ch == deleteChange(parentKeyOf(path), prop)
  IN IF ~deleterRes THEN [ok |-> FALSE, record |-> rec, metaData |-> meta]
     ELSE [ok |-> TRUE,
           record |-> deleted(rec, path),
           metaData |-> updateDepsAttrs(prop,
                          [meta EXCEPT !.changes = Mark(meta.changes, ch.key, ch.info)])]

---------------------------------------------------------------------------
\* Array methods called on a proxied array: Array.prototype works on the
\* proxy, so every Set and DeletePropertyOrThrow of the method is a trap call.

\* The property name of the array index i.
IndexName(i) == CASE i = 0 -> "0" [] i = 1 -> "1" [] i = 2 -> "2" [] OTHER -> "3"

\* array.length = n
arrayLength(rec, meta, ap, n) == setTrap(rec, meta, Append(ap, "length"), P(n))

\* array.push(value): Set(O, len, value), Set(O, "length", len + 1).
arrayPush(rec, meta, ap, value) ==
  LET len == Len(ValAt(rec, ap).e)
      s == setTrap(rec, meta, Append(ap, IndexName(len)), value)
  IN arrayLength(s.record, s.metaData, ap, len + 1)

\* array.pop(): DeletePropertyOrThrow(O, len - 1), Set(O, "length", len - 1).
arrayPop(rec, meta, ap) ==
  LET len == Len(ValAt(rec, ap).e)
  IN IF len = 0 THEN arrayLength(rec, meta, ap, 0)
     ELSE LET d == deleteTrap(rec, meta, Append(ap, IndexName(len - 1)))
          IN arrayLength(d.record, d.metaData, ap, len - 1)

RECURSIVE spliceShift(_, _, _, _)
\* The loop of splice(0, 1) from index k on: element k + 1 moves to k, by a
\* Set when it is there and by a delete of k when it is a hole.
spliceShift(st, ap, k, len) ==
  IF k >= len - 1 THEN st
  ELSE LET arr == ValAt(st.record, ap)
           from == IndexName(k + 1)
           moved == IF HasOwn(arr, from)
                    THEN setTrap(st.record, st.metaData, Append(ap, IndexName(k)), GetOwn(arr, from))
                    ELSE deleteTrap(st.record, st.metaData, Append(ap, IndexName(k)))
       IN spliceShift(moved, ap, k + 1, len)

\* array.splice(0, 1): the shift, the delete of the last index, the length.
arraySplice(rec, meta, ap) ==
  LET len == Len(ValAt(rec, ap).e)
  IN IF len = 0 THEN arrayLength(rec, meta, ap, 0)
     ELSE LET s == spliceShift([ok |-> TRUE, record |-> rec, metaData |-> meta], ap, 0, len)
              d == deleteTrap(s.record, s.metaData, Append(ap, IndexName(len - 1)))
          IN arrayLength(d.record, d.metaData, ap, len - 1)

---------------------------------------------------------------------------
\* calculateUpdateData

updatedFields(rec, meta) ==
  [attr \in {a \in DOMAIN meta.changes :
               meta.changes[a] = "Updated" /\ TopHasOwn(rec, a)} |-> TopGet(rec, attr)]

\* Slip: every key of changes is listed, whatever its status.
removedFields_AllKeys(rec, meta) == DOMAIN meta.changes

removedFields(rec, meta) == {key \in DOMAIN meta.changes : meta.changes[key] = "Removed"}

\* record[metaDataKey] of a value no entity constructor produced.
NoMeta == Undef

\* A call that ended in a thrown Error.
Thrown == [k |-> "error"]

\* Slip: a value without metadata reduces to the empty patch.
calculateUpdateData_DefaultPatch(rec, meta) ==
  IF meta = NoMeta
  THEN [set |-> NoProps, remove |-> {}]
  ELSE [set |-> updatedFields(rec, meta), remove |-> removedFields(rec, meta)]

calculateUpdateData(rec, meta) ==
  IF meta = NoMeta
  THEN Thrown
  ELSE [set |-> updatedFields(rec, meta), remove |-> removedFields(rec, meta)]

\* Slip: reducing clears the tracked changes.
calculateUpdateDataCall_Resets(rec, meta) ==
  [result |-> calculateUpdateData(rec, meta), record |-> rec,
   metaData |-> IF meta = NoMeta THEN meta ELSE [meta EXCEPT !.changes = NoProps]]

\* What a call of calculateUpdateData returns and leaves behind: it only
\* reads the record and its metadata.
calculateUpdateDataCall(rec, meta) ==
  [result |-> calculateUpdateData(rec, meta), record |-> rec, metaData |-> meta]

---------------------------------------------------------------------------
\* Table: the operations that take a tracked record (src/table.ts)

\* `!value` is false: every value of the model but undefined is truthy.
Truthy(v) == v # Undef

\* Slip: only the primary key is looked at.
keyMissing_PrimaryOnly(rec, table) == ~Truthy(TopGet(rec, table.primaryKey))

\* The checks update and delete make first: the attribute named by
\* primaryKey, then the one named by sortKey when the table has one.
keyMissing(rec, table) ==
  \/ ~Truthy(TopGet(rec, table.primaryKey))
  \/ table.sortKey # "" /\ ~Truthy(TopGet(rec, table.sortKey))

\* The key the command is built with, by the table's attribute names.
matchKeyToTable(rec, table) ==
  [name \in {table.primaryKey} \cup (IF table.sortKey # "" THEN {table.sortKey} ELSE {}) |->
     TopGet(rec, name)]

\* Slip: the timestamp is written to the target, past the proxy.
stampUpdated_Untracked(rec, meta, time) ==
  [ok |-> TRUE, record |-> PutAt(rec, <<"_updated">>, Date(time)), metaData |-> meta]

\* record._updated = new Date(), an assignment through the record's proxy.
stampUpdated(rec, meta, time) == setTrap(rec, meta, <<"_updated">>, Date(time))

\* Table.update(record): the key checks, the timestamp, then the update
\* data for the command.
tableUpdate(rec, meta, table, time) ==
  IF keyMissing(rec, table)
  THEN [ok |-> FALSE, record |-> rec, metaData |-> meta, result |-> Thrown]
  ELSE LET s == stampUpdated(rec, meta, time)
       IN [ok |-> TRUE, record |-> s.record, metaData |-> s.metaData,
           result |-> [k |-> "UpdateItemCommand",
                       key |-> matchKeyToTable(rec, table),
                       data |-> calculateUpdateData(s.record, s.metaData)]]

RECURSIVE marshallThrows(_)
\* value.toISOString() on a Proxy around a Date is a TypeError: the proxy
\* is an instanceof Date without being one.
marshallThrows(value) ==
  CASE value.k = "date" -> value.w
    [] value.k = "arr" -> \E i \in DOMAIN value.e : marshallThrows(value.e[i])
    [] value.k = "obj" -> \E x \in DOMAIN value.f : marshallThrows(value.f[x])
    [] OTHER -> FALSE

RECURSIVE marshall(_)
\* A Date becomes its ISO string, arrays and objects are rebuilt with their
\* members marshalled, anything else is kept.
marshall(value) ==
  CASE value.k = "date" -> Iso(value.t)
    [] value.k = "arr" -> Arr([i \in DOMAIN value.e |-> marshall(value.e[i])])
    [] value.k = "obj" -> Obj([x \in DOMAIN value.f |-> marshall(value.f[x])])
    [] OTHER -> value

\* marshallItem(record): the own enumerable attributes, computed ones
\* included.
marshallItem(rec) ==
  [a \in (DOMAIN rec.f) \cup (DOMAIN rec.acc) |-> marshall(TopGet(rec, a))]

\* Table.put(record): both timestamps through the record's proxy, then the
\* command with the marshalled item.
tablePut(rec, meta, time) ==
  LET c == setTrap(rec, meta, <<"_created">>, Date(time))
      u == setTrap(c.record, c.metaData, <<"_updated">>, Date(time))
      throws == \E a \in DOMAIN u.record.f : marshallThrows(u.record.f[a])
  IN [ok |-> ~throws, record |-> u.record, metaData |-> u.metaData,
      result |-> IF throws THEN Thrown
                 ELSE [k |-> "PutItemCommand", item |-> marshallItem(u.record)]]

\* Table.delete(record): the key checks, then the command.
tableDelete(rec, meta, table) ==
  IF keyMissing(rec, table)
  THEN [ok |-> FALSE, record |-> rec, metaData |-> meta, result |-> Thrown]
  ELSE [ok |-> TRUE, record |-> rec, metaData |-> meta,
        result |-> [k |-> "DeleteItemCommand", key |-> matchKeyToTable(rec, table)]]

---------------------------------------------------------------------------
\* Results: a record materialised from a store output (src/results.ts,
\* src/marshall.ts)

RECURSIVE unmarshall(_)

\* Slip: ISO strings are left as they are.
unmarshall_KeepsStrings(value) ==
  IF value.k = "arr"
  THEN Arr([i \in DOMAIN value.e |-> unmarshall(value.e[i])])
  ELSE IF value.k = "obj"
  THEN Obj([x \in DOMAIN value.f |-> unmarshall(value.f[x])])
  ELSE value

\* An ISO date string becomes a Date, arrays and objects are rebuilt with
\* their members unmarshalled, anything else is kept.
unmarshall(value) ==
  IF value.k = "iso"
  THEN Date(value.t)
  ELSE IF value.k = "arr"
  THEN Arr([i \in DOMAIN value.e |-> unmarshall(value.e[i])])
  ELSE IF value.k = "obj"
  THEN Obj([x \in DOMAIN value.f |-> unmarshall(value.f[x])])
  ELSE value

unmarshallItem(item) == [key \in DOMAIN item |-> unmarshall(item[key])]

\* output.Item of a store output without an item.
NoItem == Undef

\* The null a result answers with when the output has no item.
Null == [k |-> "null"]

\* table.entity(type): the table of a scenario registers the scenario's
\* entity under its name.
tableEntity(type) == type = entityName

\* GetResult.item(), and each element of QueryResult.items().
resultItem(item) ==
  IF item = NoItem
  THEN Null
  ELSE LET entityType == IF "_type" \in DOMAIN item THEN item["_type"] ELSE Undef
       IN IF Truthy(entityType) /\ tableEntity(entityType)
          THEN LET c == entityConstructor(unmarshallItem(item))
               IN [k |-> "record", record |-> c.record, metaData |-> c.metaData]
          ELSE Thrown

\* An item as the store holds it: marshalled, written before the run began,
\* with the computed attributes it was put with.
StoredItem ==
  [login |-> P(1), email |-> P(1), pk |-> Cat(P(1)), sk |-> Email(P(1)),
   tags |-> Arr(<<Iso(0 - 1), P(1)>>),
   _created |-> Iso(0 - 2), _updated |-> Iso(0 - 1), _type |-> entityName]

\* The store outputs of the runs: no item, the stored item, an item of an
\* entity the table does not know, an item without _type, and an item that
\* has a _type but no timestamps.
StoreOutputs ==
  { NoItem,
    StoredItem,
    [StoredItem EXCEPT !["_type"] = P(1)],
    [a \in (DOMAIN StoredItem) \ {"_type"} |-> StoredItem[a]],
    [login |-> P(1), email |-> P(1), _type |-> entityName] }

---------------------------------------------------------------------------
\* The program: one tracked record, mutated through its proxies

\* An object literal assigned after construction: it is behind no proxy.
FreshObj == Obj([city |-> P(1)])

\* The values the enumerated writes assign.
WriteVals == {Undef, FreshObj} \cup {P(n) : n \in 1..MaxVal}

\* No table: the record is used on its own.
NoTable == [primaryKey |-> "", sortKey |-> ""]

\* The schema of tests/entity.test.ts, of tests/table.test.ts, and one
\* without computed attributes.
EntitySchema == [pk |-> {"login"}]
TableSchema == [pk |-> {"login"}, sk |-> {"email"}]
BareSchema == [x \in {} |-> {}]

\* A schema with a computed attribute that depends on a container
\* attribute: place is the city of the address.
PlaceSchema == [pk |-> {"login"}, place |-> {"address"}]

\* The input data of the runs, the schema, the table the record is used with
\* and the property paths the mutations address.
Scenarios ==
  { [data |-> [name |-> P(1), login |-> P(1)],
     computed |-> EntitySchema, table |-> NoTable,
     paths |-> {<<"name">>, <<"login">>, <<"pk">>}],
    [data |-> [name |-> P(1)],
     computed |-> EntitySchema, table |-> NoTable,
     paths |-> {<<"email">>}],
    [data |-> [login |-> P(1),
               address |-> Obj([city |-> P(1), geo |-> Obj([lat |-> P(1)])])],
     computed |-> EntitySchema, table |-> NoTable,
     paths |-> {<<"address">>, <<"address", "city">>, <<"address", "geo">>,
                <<"address", "geo", "lat">>}],
    [data |-> [name |-> P(1), favColors |-> Arr(<<P(1), Obj([x |-> P(1)])>>)],
     computed |-> EntitySchema, table |-> NoTable,
     paths |-> {<<"favColors">>, <<"favColors", "0">>, <<"favColors", "1">>,
                <<"favColors", "1", "x">>, <<"favColors", "2">>}],
    [data |-> [name |-> P(1)],
     computed |-> BareSchema, table |-> NoTable,
     paths |-> {<<"name">>, <<"_expires">>}],
    [data |-> [login |-> P(1), email |-> P(1), name |-> P(1)],
     computed |-> TableSchema, table |-> [primaryKey |-> "pk", sortKey |-> "sk"],
     paths |-> {<<"email">>, <<"name">>}],
    [data |-> [login |-> P(1)],
     computed |-> EntitySchema, table |-> [primaryKey |-> "login", sortKey |-> ""],
     paths |-> {<<"login">>, <<"_expires">>}],
    [data |-> [login |-> P(1), address |-> Obj([city |-> P(1), login |-> P(1)])],
     computed |-> PlaceSchema, table |-> NoTable,
     paths |-> {<<"address">>, <<"address", "city">>, <<"address", "login">>}],
    [data |-> [favColors |-> Arr(<<P(1), P(2)>>)],
     computed |-> EntitySchema, table |-> NoTable,
     paths |-> {<<"favColors", "0">>}],
    [data |-> [birthdate |-> Date(1),
               address |-> Obj([since |-> Date(1)]),
               visits |-> Arr(<<Date(1), Arr(<<Date(2)>>)>>)],
     computed |-> EntitySchema, table |-> NoTable,
     paths |-> {<<"birthdate">>, <<"address", "since">>}],
    [data |-> [address |-> Obj([city |-> P(1)])],
     computed |-> EntitySchema, table |-> NoTable,
     paths |-> {<<"address">>, <<"address", "city">>}],
    [data |-> [login |-> P(1), pk |-> Cat(P(1))],
     computed |-> EntitySchema, table |-> NoTable,
     paths |-> {<<"login">>, <<"pk">>}] }

\* The runs in which the caller keeps a reference to a nested container
\* from before a delete.
StaleScenario == CHOOSE sc \in Scenarios : sc.paths = {<<"address">>, <<"address", "city">>}

\* The array attributes the array operations of a scenario work on.
ArraysOf(sc) ==
  {a \in DOMAIN sc.data : sc.data[a].k = "arr" /\ <<a, "0">> \in sc.paths /\ <<a>> \notin sc.paths}

\* The values a test writes to a path: _expires holds a Date or nothing.
ValsFor(path) ==
  IF Last(path) = "_expires"
  THEN {Undef} \cup {Date(t) : t \in 1..MaxVal}
  ELSE WriteVals

\* The top-level attribute names a scenario's mutations address.
TopNames(sc) == {p[1] : p \in {q \in sc.paths : Len(q) = 1}}

\* Whether a value was there before a mutation.
WasOf(rec, path) ==
  IF targetGet(rec, path) # Undef THEN "present"
  ELSE IF Len(path) = 1 /\ TopHasOwn(rec, path[1]) THEN "undefined"
  ELSE IF Len(path) > 1 /\ HasOwn(ValAt(rec, Front(path)), Last(path)) THEN "undefined"
  ELSE "absent"

\* The kind of a top-level mutation, as the history keeps it; an edit
\* through a reference kept from before a delete is kept as "stale", with
\* prev the top-level mutation before it.
OpKind(op, value) == IF op = "delete" THEN "delete" ELSE IF value = Undef THEN "undef" ELSE "set"

NoHist == [op |-> "none", v |-> Undef, prev |-> "none"]

\* What the last call of calculateUpdateData or of a table operation gave
\* back, as long as no mutation has followed it.
NoResult == [k |-> "none"]

\* No reference to a nested container is kept outside the record.
NoRef == [k |-> "none"]

\* No second record: the run is about one tracked record.
NoPair == [k |-> "none"]

Init ==
  /\ scenario \in Scenarios
  /\ now = 0
  /\ record = entityConstructor(scenario.data).record
  /\ metaData = entityConstructor(scenario.data).metaData
  /\ initial = record
  /\ hist = [a \in TopNames(scenario) |-> NoHist]
  /\ last = [op |-> "new", path |-> <<>>, v |-> Undef, was |-> "absent", trap |-> FALSE, ok |-> TRUE]
  /\ returned = NoResult
  /\ pair = NoPair
  /\ held = NoRef

\* The container the path's last property is written to or deleted from exists.
Addressable(path) ==
  /\ path \in scenario.paths
  /\ Len(path) > 1 => IsContainer(ValAt(record, Front(path)))

\* The bookkeeping both mutations share: r is the outcome of the trap or of
\* the plain operation on an object behind no proxy.
Step(op, path, value, trapped, r) ==
  /\ record' = r.record
  /\ metaData' = r.metaData
  /\ hist' = IF r.ok /\ Len(path) = 1
             THEN [hist EXCEPT ![path[1]] =
                     [op |-> OpKind(op, value), v |-> value, prev |-> hist[path[1]].op]]
             ELSE hist
  /\ last' = [op |-> op, path |-> path, v |-> value, was |-> WasOf(record, path),
              trap |-> trapped, ok |-> r.ok]
  /\ returned' = NoResult
  /\ UNCHANGED <<scenario, initial, now, pair>>

\* record.path = value. A false result of the trap is a TypeError in strict
\* mode: nothing has changed.
Set(path, value) ==
  /\ Addressable(path)
  /\ LET trapped == ValAt(record, Front(path)).w
     IN Step("set", path, value, trapped,
             IF trapped THEN setTrap(record, metaData, path, value)
             ELSE [ok |-> TRUE, record |-> PutAt(record, path, value), metaData |-> metaData])
  /\ UNCHANGED held

\* delete record.path
Delete(path) ==
  /\ Addressable(path)
  /\ LET trapped == ValAt(record, Front(path)).w
     IN Step("delete", path, Undef, trapped,
             IF trapped THEN deleteTrap(record, metaData, path)
             ELSE [ok |-> TRUE, record |-> DelAt(record, path), metaData |-> metaData])
  /\ UNCHANGED held

\* const ref = record.a; delete record.a: the caller keeps the proxy of the
\* nested container the attribute held.
Detach(a) ==
  /\ scenario = StaleScenario
  /\ held = NoRef
  /\ <<a>> \in scenario.paths
  /\ IsContainer(GetOwn(record, a))
  /\ GetOwn(record, a).w
  /\ Step("delete", <<a>>, Undef, TRUE, deleteTrap(record, metaData, <<a>>))
  /\ held' = [attr |-> a, v |-> GetOwn(record, a)]

\* ref.path = value through the kept proxy, after the attribute has left
\* the record: the proxy still has the record's metadata and the
\* attribute's name as its parentKey.
StaleSet(path, value) ==
  /\ held # NoRef
  /\ path \in scenario.paths
  /\ Len(path) > 1
  /\ path[1] = held.attr
  /\ LET view == PutOwn(record, held.attr, held.v)
         inside == ValAt(view, Front(path))
         r == IF inside.w THEN setTrap(view, metaData, path, value)
              ELSE [ok |-> TRUE, record |-> PutAt(view, path, value), metaData |-> metaData]
     IN /\ IsContainer(inside)
        /\ metaData' = r.metaData
        /\ held' = [held EXCEPT !.v = GetOwn(r.record, held.attr)]
        /\ last' = [op |-> "staleSet", path |-> path, v |-> value,
                    was |-> WasOf(view, path), trap |-> inside.w, ok |-> r.ok]
  /\ hist' = [hist EXCEPT ![held.attr] =
                [op |-> "stale", v |-> value,
                 prev |-> IF hist[held.attr].op = "stale"
                          THEN hist[held.attr].prev ELSE hist[held.attr].op]]
  /\ returned' = NoResult
  /\ UNCHANGED <<record, scenario, initial, now, pair>>

\* An array method or a length assignment on the array attribute a.
ArrayOp(op, a, value, r) ==
  /\ a \in ArraysOf(scenario)
  /\ ValAt(record, <<a>>).k = "arr"
  /\ record' = r.record
  /\ metaData' = r.metaData
  /\ last' = [op |-> op, path |-> <<a>>, v |-> value, was |-> "present", trap |-> TRUE, ok |-> r.ok]
  /\ returned' = NoResult
  /\ UNCHANGED <<scenario, initial, hist, now, pair, held>>

\* record.a.push(value)
Push(a, value) ==
  /\ Len(ValAt(record, <<a>>).e) < MaxLen
  /\ ArrayOp("push", a, value, arrayPush(record, metaData, <<a>>, value))

\* record.a.pop()
Pop(a) == ArrayOp("pop", a, Undef, arrayPop(record, metaData, <<a>>))

\* record.a.splice(0, 1)
Splice(a) == ArrayOp("splice", a, Undef, arraySplice(record, metaData, <<a>>))

\* record.a.length = n
SetLength(a, n) ==
  /\ n <= Len(ValAt(record, <<a>>).e)
  /\ ArrayOp("length", a, P(n), arrayLength(record, metaData, <<a>>, n))

\* A call whose only trace in the history is its name and its outcome.
Call(op, ok) ==
  [op |-> op, path |-> <<>>, v |-> Undef, was |-> "absent", trap |-> FALSE, ok |-> ok]

\* calculateUpdateData(record) on the tracked record.
Reduce ==
  /\ LET c == calculateUpdateDataCall(record, metaData)
     IN /\ returned' = c.result
        /\ record' = c.record
        /\ metaData' = c.metaData
  /\ last' = Call("reduce", TRUE)
  /\ UNCHANGED <<scenario, initial, hist, now, pair, held>>

\* calculateUpdateData(data) on the plain input object, which no entity
\* constructor has produced.
ReducePlain ==
  /\ returned' = calculateUpdateDataCall(Obj(scenario.data), NoMeta).result
  /\ last' = Call("reducePlain", returned' # Thrown)
  /\ UNCHANGED <<record, metaData, scenario, initial, hist, now, pair, held>>

\* table.update(record); the clock advances when the timestamp is taken.
TableUpdate ==
  /\ scenario.table # NoTable
  /\ LET missing == keyMissing(record, scenario.table)
         time == IF missing THEN now ELSE now + 1
         r == tableUpdate(record, metaData, scenario.table, time)
     IN /\ missing \/ now < MaxTime
        /\ record' = r.record
        /\ metaData' = r.metaData
        /\ returned' = r.result
        /\ now' = time
        /\ last' = Call("tableUpdate", r.ok)
  /\ UNCHANGED <<scenario, initial, hist, pair, held>>

\* table.put(record); the clock advances when the timestamps are taken.
TablePut ==
  /\ scenario.table # NoTable
  /\ now < MaxTime
  /\ LET r == tablePut(record, metaData, now + 1)
     IN /\ record' = r.record
        /\ metaData' = r.metaData
        /\ returned' = r.result
        /\ last' = Call("tablePut", r.ok)
  /\ now' = now + 1
  /\ UNCHANGED <<scenario, initial, hist, pair, held>>

\* table.delete(record)
TableDelete ==
  /\ scenario.table # NoTable
  /\ LET r == tableDelete(record, metaData, scenario.table)
     IN /\ record' = r.record
        /\ metaData' = r.metaData
        /\ returned' = r.result
        /\ last' = Call("tableDelete", r.ok)
  /\ UNCHANGED <<scenario, initial, hist, now, pair, held>>

\* result.item() on a store output of the scenario's table.
ResultItem(item) ==
  /\ scenario.table # NoTable
  /\ item \in StoreOutputs
  /\ returned' = resultItem(item)
  /\ last' = [Call("item", returned' # Thrown) EXCEPT
                !.v = IF item = NoItem THEN NoItem ELSE Obj(item)]
  /\ UNCHANGED <<record, metaData, scenario, initial, hist, now, pair, held>>

Next ==
  \/ \E path \in scenario.paths : \E value \in ValsFor(path) : Set(path, value)
  \/ \E path \in scenario.paths : Delete(path)
  \/ Reduce
  \/ ReducePlain
  \/ TableUpdate
  \/ TablePut
  \/ TableDelete
  \/ \E item \in StoreOutputs : ResultItem(item)
  \/ \E a \in TopNames(scenario) : Detach(a)
  \/ \E path \in scenario.paths, value \in WriteVals : StaleSet(path, value)
  \/ \E a \in ArraysOf(scenario), value \in {Undef, P(1)} : Push(a, value)
  \/ \E a \in ArraysOf(scenario) : Pop(a)
  \/ \E a \in ArraysOf(scenario) : Splice(a)
  \/ \E a \in ArraysOf(scenario), n \in 0..MaxLen : SetLength(a, n)

Spec == Init /\ [][Next]_vars

---------------------------------------------------------------------------
\* Two tracked records built by one entity constructor from one input data
\* object

\* The two records, in the order of their construction.
Ids == {1, 2}

\* The input data both constructor calls are given: the one with an object
\* inside an object.
PairScenario ==
  CHOOSE sc \in Scenarios : <<"address", "geo", "lat">> \in sc.paths

\* The state after entity(data) has been called twice on the same data.
\* Each call spreads the data into a target of its own, so the top-level
\* attributes are per record, but the object values are the caller's
\* objects: wrapProxy works on them in place (toWrap = target), the records
\* share them, and each call replaces an object found inside them by a
\* proxy of the call's metadata around what was there before.
\*   view[r]    the record r as its owner sees it
\*   meta[r]    the metadata of the constructor call that built r
\*   linked[r]  the top-level attribute of r still is the proxy around the
\*              caller's object
\*   by, path   the record and the path of the last mutation
\*   input      the input data object as the caller sees it
RECURSIVE wrappedInPlace(_)
\* A value of the input data after wrapProxy has worked on it: an object is
\* the toWrap itself, so its object and array fields now are proxies; an
\* array is copied by map, and only its elements are worked on.
wrappedInPlace(v) ==
  CASE v.k = "obj" ->
         [v EXCEPT !.f = [x \in DOMAIN v.f |->
                            IF v.f[x].k \in {"obj", "arr"}
                            THEN wrapProxy(v.f[x]) ELSE v.f[x]]]
    [] v.k = "arr" ->
         [v EXCEPT !.e = [i \in DOMAIN v.e |-> wrappedInPlace(v.e[i])]]
    [] OTHER -> v

\* The input data after entity(data): the spread copies the top level only.
inputAfter(data) == [a \in DOMAIN data |-> wrappedInPlace(data[a])]

newPair(data) ==
  [input |-> inputAfter(data),
   view |-> [r \in Ids |-> entityConstructor(data).record],
   meta |-> [r \in Ids |-> entityConstructor(data).metaData],
   linked |-> [r \in Ids |-> TRUE],
   by |-> 0, path |-> <<>>]

\* The metadata of the proxies a mutation of record r goes through. A
\* top-level attribute, and an object held by one, are reached through a
\* proxy of r; an object found inside the caller's object has been wrapped
\* by every constructor call, one proxy around the other, and the set and
\* delete of the outer forward to the inner.
proxiesAround(p, r, path) ==
  IF ~ValAt(p.view[r], Front(path)).w THEN {}
  ELSE IF Len(path) > 2 /\ p.linked[r] THEN Ids
  ELSE {r}

\* What a mutation of record r leaves behind: the record itself, the same
\* objects as the other record sees them, and the metadata of every proxy
\* on the way.
pairAfter(p, r, path, isSet, value) ==
  LET v == p.view[r]
      through == proxiesAround(p, r, path)
      trap(id) == IF isSet THEN setTrap(v, p.meta[id], path, value)
                  ELSE deleteTrap(v, p.meta[id], path)
      plain == IF isSet THEN PutAt(v, path, value) ELSE DelAt(v, path)
      ok == \A id \in through : trap(id).ok
      nv == IF ~ok THEN v ELSE IF through = {} THEN plain ELSE trap(r).record
      shared == p.linked[r] /\ Len(path) > 1
  IN [input |-> IF shared
                THEN [p.input EXCEPT ![path[1]] = [nv.f[path[1]] EXCEPT !.w = FALSE]]
                ELSE p.input,
      view |-> [id \in Ids |->
                  IF id = r THEN nv
                  ELSE IF shared /\ p.linked[id]
                  THEN PutAt(p.view[id], <<path[1]>>, nv.f[path[1]])
                  ELSE p.view[id]],
      meta |-> [id \in Ids |->
                  IF ok /\ id \in through THEN trap(id).metaData ELSE p.meta[id]],
      linked |-> [id \in Ids |->
                  IF id = r /\ Len(path) = 1 /\ ok THEN FALSE ELSE p.linked[id]],
      by |-> r, path |-> path]

InitPair ==
  /\ scenario = PairScenario
  /\ now = 0
  /\ record = entityConstructor(scenario.data).record
  /\ metaData = entityConstructor(scenario.data).metaData
  /\ initial = record
  /\ hist = [a \in TopNames(scenario) |-> NoHist]
  /\ last = [op |-> "new", path |-> <<>>, v |-> Undef, was |-> "absent", trap |-> FALSE, ok |-> TRUE]
  /\ returned = NoResult
  /\ pair = newPair(scenario.data)
  /\ held = NoRef

\* The container the path's last property belongs to exists in record r.
PairAddressable(r, path) ==
  /\ path \in scenario.paths
  /\ Len(path) > 1 => IsContainer(ValAt(pair.view[r], Front(path)))

\* record_r.path = value
PairSet(r, path, value) ==
  /\ PairAddressable(r, path)
  /\ pair' = pairAfter(pair, r, path, TRUE, value)
  /\ UNCHANGED <<record, metaData, scenario, initial, hist, last, now, returned, held>>

\* delete record_r.path
PairDelete(r, path) ==
  /\ PairAddressable(r, path)
  /\ pair' = pairAfter(pair, r, path, FALSE, Undef)
  /\ UNCHANGED <<record, metaData, scenario, initial, hist, last, now, returned, held>>

\* The values written to the two records: undefined and a primitive other
\* than the initial one.
PairVals == {Undef, P(MaxVal)}

\* The paths the mutations of the two records address: the attribute, a
\* field of its object, and a field of the object inside it.
PairPaths == {<<"address">>, <<"address", "city">>, <<"address", "geo", "lat">>}

NextPair ==
  \/ \E r \in Ids, path \in PairPaths, value \in PairVals : PairSet(r, path, value)
  \/ \E r \in Ids, path \in PairPaths : PairDelete(r, path)

SpecPair == InitPair /\ [][NextPair]_vars

\* The patch of the record as it is now.
Patch == calculateUpdateData(record, metaData)

TypeOK ==
  /\ DOMAIN metaData.changes \subseteq
       TopNames(scenario) \cup ComputedKeys \cup DOMAIN scenario.data \cup {"_updated", "_created"}
  /\ \A a \in DOMAIN metaData.changes : metaData.changes[a] \in {"Updated", "Removed"}

---------------------------------------------------------------------------
\* Properties

\* The top-level attributes a scenario mutates that are no computed attribute.
PlainTop == TopNames(scenario) \ ComputedKeys

\* Every name that is a top-level attribute in some scenario.
AllTopNames ==
  ComputedKeys \cup {"_created", "_updated", "_type"}
    \cup UNION {(DOMAIN sc.data) \cup TopNames(sc) : sc \in Scenarios}

\* The own enumerable top-level attributes of a record with their values.
TopAttrs(rec) == [a \in (DOMAIN rec.f) \cup (DOMAIN rec.acc) |-> TopGet(rec, a)]

\* An attribute whose value is undefined counts as not there (the store
\* drops it: removeUndefinedValues).
Present(attrs) == [a \in {x \in DOMAIN attrs : attrs[x] # Undef} |-> attrs[a]]

\* Assign every entry of set, then drop every name in remove.
ApplyPatch(attrs, patch) ==
  LET assigned == [a \in (DOMAIN attrs) \cup (DOMAIN patch.set) |->
                     IF a \in DOMAIN patch.set THEN patch.set[a] ELSE attrs[a]]
  IN [a \in (DOMAIN assigned) \ patch.remove |-> assigned[a]]

\* C1: after any sequence of top-level writes, top-level deletes and nested
\* edits, the patch applied to the construction-time top-level attributes
\* yields the record's current top-level attributes.
C1_PatchReproducesRecord ==
  Present(ApplyPatch(TopAttrs(initial), Patch)) = Present(TopAttrs(record))

\* C2: a freshly constructed record on which no mutation was performed has
\* empty changes, and its patch has an empty set and an empty remove.
C2_FreshRecordHasNoChanges ==
  last.op = "new" =>
    /\ metaData.changes = NoProps
    /\ Patch.set = NoProps
    /\ Patch.remove = {}

C2_Witness ==
  /\ last.op = "new"
  /\ \E a \in DOMAIN record.f : IsContainer(record.f[a]) /\ record.f[a].w

\* C3: when the last top-level mutation of a plain attribute wrote a present
\* value, the patch has the attribute in set with the value the record holds
\* now (the last value written) and not in remove.
C3_WrittenAttrInSet ==
  \A a \in PlainTop :
    hist[a].op = "set" =>
      /\ a \in DOMAIN Patch.set
      /\ Patch.set[a] = TopGet(record, a)
      /\ hist[a].v.k = "prim" => Patch.set[a] = hist[a].v
      /\ a \notin Patch.remove

C3_Witness ==
  /\ "name" \in DOMAIN hist
  /\ hist["name"] = [op |-> "set", v |-> P(2), prev |-> "set"]

\* C4: when the last top-level mutation of an attribute no computed attribute
\* depends on was a delete, the patch lists it in remove and not in set.
C4_DeletedAttrInRemove ==
  \A a \in PlainTop :
    (hist[a].op = "delete" /\ a \notin DOMAIN metaData.attrDeps) =>
      /\ a \in Patch.remove
      /\ a \notin DOMAIN Patch.set

C4_Witness ==
  /\ "name" \in DOMAIN hist
  /\ hist["name"].op = "delete"
  /\ ~TopHasOwn(record, "name")

\* C5: assigning undefined to a top-level attribute that holds a present
\* value leaves the same changes and the same patch as deleting it in the
\* same state would: the name is in remove and not in set.
C5_SentinelWriteEqualsDelete ==
  [][(/\ last'.op = "set" /\ last'.ok /\ Len(last'.path) = 1
      /\ last'.v = Undef /\ last'.was = "present")
     => LET d == deleteTrap(record, metaData, last'.path)
            a == last'.path[1]
        IN /\ d.ok
           /\ metaData' = d.metaData
           /\ Patch' = calculateUpdateData(d.record, d.metaData)
           /\ a \in Patch'.remove
           /\ a \notin DOMAIN Patch'.set]_vars

C5_Witness ==
  /\ last.op = "set" /\ last.ok /\ last.path = <<"login">>
  /\ last.v = Undef /\ last.was = "present"
  /\ "pk" \in DOMAIN Patch.set

\* C6: assigning undefined to a top-level attribute is removal in every
\* state of the attribute, also when it is already absent or undefined: the
\* patch lists it in remove and never has it in set.
C6_SentinelAlwaysRemoves ==
  \A a \in PlainTop :
    hist[a].op = "undef" =>
      /\ a \in Patch.remove
      /\ a \notin DOMAIN Patch.set

\* C7: the status of a top-level attribute is the one its last mutation
\* recorded: delete then write of a present value ends Updated (in set with
\* the new value, not in remove), write then delete ends Removed (in remove,
\* not in set).
C7_LastMutationWins ==
  \A a \in PlainTop :
    /\ (hist[a].prev = "delete" /\ hist[a].op = "set") =>
         /\ a \in DOMAIN metaData.changes
         /\ metaData.changes[a] = "Updated"
         /\ a \in DOMAIN Patch.set
         /\ hist[a].v.k = "prim" => Patch.set[a] = hist[a].v
         /\ a \notin Patch.remove
    /\ (hist[a].prev = "set" /\ hist[a].op = "delete") =>
         /\ a \in DOMAIN metaData.changes
         /\ metaData.changes[a] = "Removed"
         /\ a \in Patch.remove
         /\ a \notin DOMAIN Patch.set

C7_Witness ==
  /\ {"name", "login"} \subseteq DOMAIN hist
  /\ hist["name"].prev = "delete" /\ hist["name"].op = "set"
  /\ hist["login"].prev = "set" /\ hist["login"].op = "delete"

\* C8: a write of a present value at any depth inside a container that was
\* there at construction puts the containing top-level attribute in set with
\* its full current value; the nested field name or array index is no key of
\* set and is not in remove.
C8_NestedWriteMarksTopLevel ==
  (last.op = "set" /\ last.trap /\ Len(last.path) > 1 /\ last.v # Undef) =>
    LET top == last.path[1]
        n == Last(last.path)
    IN /\ top \in DOMAIN Patch.set
       /\ Patch.set[top] = TopGet(record, top)
       /\ ValAt(Patch.set[top], Tail(last.path)) = last.v
       /\ top \notin Patch.remove
       /\ n \notin AllTopNames => (n \notin DOMAIN Patch.set /\ n \notin Patch.remove)

C8_Witness ==
  /\ last.op = "set" /\ last.trap /\ last.v = P(2)
  /\ last.path = <<"address", "geo", "lat">>

\* C9: deleting a field inside a nested container marks the containing
\* top-level attribute Updated, never Removed: it is in set with its current
\* value, which no longer has the field, and not in remove.
C9_NestedDeleteUpdatesParent ==
  (last.op = "delete" /\ last.trap /\ Len(last.path) > 1) =>
    LET top == last.path[1]
    IN /\ top \in DOMAIN metaData.changes
       /\ metaData.changes[top] = "Updated"
       /\ top \in DOMAIN Patch.set
       /\ Patch.set[top] = TopGet(record, top)
       /\ ~HasOwn(ValAt(Patch.set[top], Tail(Front(last.path))), Last(last.path))
       /\ top \notin Patch.remove

C9_Witness ==
  /\ last.op = "delete" /\ last.trap /\ last.was = "present"
  /\ last.path = <<"address", "city">>

\* C10: assigning undefined to a present field inside a nested object or
\* array puts the containing top-level attribute in set with its full
\* current value, and not in remove.
C10_NestedSentinelUpdatesParent ==
  (/\ last.op = "set" /\ last.trap /\ Len(last.path) > 1
   /\ last.v = Undef /\ last.was = "present") =>
    LET top == last.path[1]
    IN /\ top \in DOMAIN Patch.set
       /\ Patch.set[top] = TopGet(record, top)
       /\ top \notin Patch.remove

\* C11: after a direct write of a present value to login, on which the
\* computed attribute pk depends, the patch has both login and pk in set, pk
\* with the value its getter yields on the record as it is now.
C11_DependentComputedInSet ==
  ("login" \in DOMAIN hist /\ hist["login"].op = "set") =>
    /\ {"login", "pk"} \subseteq DOMAIN Patch.set
    /\ Patch.set["login"] = TopGet(record, "login")
    /\ Patch.set["pk"] = Cat(TopGet(record, "login"))

C11_Witness ==
  /\ "login" \in DOMAIN hist
  /\ hist["login"].op = "set"
  /\ hist["login"].v = P(2)
  /\ Patch.set["pk"] = Cat(P(2))

\* C12: in every state an assignment to a computed attribute fails, and the
\* attribute's derived value, the record and the tracking metadata are what
\* they were before the attempt.
C12_ComputedWriteRejected ==
  [][(last'.op = "set" /\ Len(last'.path) = 1 /\ last'.path[1] \in ComputedKeys)
     => /\ ~last'.ok
        /\ TopGet(record', last'.path[1]) = TopGet(record, last'.path[1])
        /\ record' = record
        /\ metaData' = metaData]_vars

C12_Witness ==
  /\ last.op = "set" /\ last.path = <<"pk">> /\ ~last.ok /\ last.v = P(2)
  /\ metaData.changes # NoProps

\* C14: calculateUpdateData on a plain object that carries no tracking
\* metadata fails with an error; it never returns a patch, not even an
\* empty one.
C14_PlainObjectThrows ==
  last.op = "reducePlain" =>
    /\ returned = Thrown
    /\ ~last.ok
    /\ returned # [set |-> NoProps, remove |-> {}]

C14_Witness ==
  /\ last.op = "reducePlain"
  /\ returned = Thrown
  /\ metaData.changes # NoProps

\* C15: calculateUpdateData is non-destructive: a call leaves the record's
\* attributes, changes and attrDeps as they were and returns the patch of
\* the changes tracked so far, so a second call without a mutation in
\* between returns an equal patch.
C15_ReduceIsNonDestructive ==
  [][last'.op = "reduce" =>
       /\ record' = record
       /\ metaData' = metaData
       /\ returned' = calculateUpdateData(record, metaData)
       /\ (last.op = "reduce" => returned' = returned)]_vars

C15_Witness ==
  /\ last.op = "reduce"
  /\ returned = Patch
  /\ DOMAIN returned.set # {}
  /\ returned.remove # {}

\* C18: every tracked record, whatever its schema, has the TTL computed
\* attribute: after any writes and deletes of _expires it is the epoch
\* number of the _expires last written when that is a date and undefined
\* otherwise, and a write to _expires marks the TTL attribute Updated, with
\* _expires Updated and both in the patch when a date was written.
C18_TtlFollowsExpires ==
  LET h == IF "_expires" \in DOMAIN hist THEN hist["_expires"] ELSE NoHist
  IN /\ TopHasOwn(record, ttl)
     /\ metaData.attrDeps["_expires"] = {ttl}
     /\ h.op = "set" =>
          /\ TopGet(record, ttl) = P(h.v.t)
          /\ metaData.changes[ttl] = "Updated"
          /\ metaData.changes["_expires"] = "Updated"
          /\ Patch.set[ttl] = P(h.v.t)
          /\ Patch.set["_expires"] = h.v
     /\ h.op = "undef" => metaData.changes[ttl] = "Updated"
     /\ h.op \in {"none", "undef", "delete"} => TopGet(record, ttl) = Undef

C18_Witness ==
  /\ scenario.computed = BareSchema
  /\ "_expires" \in DOMAIN hist
  /\ hist["_expires"].op = "set"
  /\ hist["_expires"].prev = "delete"
  /\ TopGet(record, ttl) = P(2)

\* C19: Table.update on a record whose key attributes are present stamps a
\* fresh _updated through the tracked record before reducing: the update
\* data of the command has _updated in set with the new timestamp, also
\* when the caller changed nothing, and otherwise exactly the set and
\* remove entries of the changes tracked before the call.
C19_UpdateStampsUpdated ==
  [][(last'.op = "tableUpdate" /\ last'.ok) =>
       LET before == calculateUpdateData(record, metaData)
           data == returned'.data
       IN /\ returned'.k = "UpdateItemCommand"
          /\ now' > now
          /\ DOMAIN data.set = (DOMAIN before.set) \cup {"_updated"}
          /\ data.set["_updated"] = Date(now')
          /\ TopGet(record', "_updated") = Date(now')
          /\ \A a \in (DOMAIN before.set) \ {"_updated"} : data.set[a] = before.set[a]
          /\ data.remove = before.remove \ {"_updated"}]_vars

C19_Witness ==
  /\ last.op = "tableUpdate"
  /\ last.ok
  /\ metaData.changes = [a \in {"_updated"} |-> "Updated"]
  /\ returned.data = [set |-> [a \in {"_updated"} |-> Date(now)], remove |-> {}]

\* C20: Table.update and Table.delete throw when the attribute named by the
\* table's primaryKey, or by its sortKey when one is configured, is missing
\* from the record: no command is built, and the record and its tracked
\* changes are what they were before the call.
C20_MissingKeyThrows ==
  [][(/\ last'.op \in {"tableUpdate", "tableDelete"}
      /\ \/ TopGet(record, scenario.table.primaryKey) = Undef
         \/ /\ scenario.table.sortKey # ""
            /\ TopGet(record, scenario.table.sortKey) = Undef)
     => /\ ~last'.ok
        /\ returned' = Thrown
        /\ metaData' = metaData
        /\ record' = record
        /\ now' = now]_vars

C20_Witness ==
  /\ last.op = "tableUpdate"
  /\ ~last.ok
  /\ returned = Thrown
  /\ scenario.table.sortKey = "sk"
  /\ TopGet(record, "sk") = Undef
  /\ "_updated" \notin DOMAIN metaData.changes
  /\ metaData.changes # NoProps

\* The reserved attributes.
Reserved == {"_created", "_updated", "_type"}

\* C16 (as stated): on construction the reserved attributes are always the
\* synthesized ones: also when the input data contains _created, _updated
\* or _type, the record holds the construction timestamps and the schema
\* name.
C16_ReservedAlwaysSynthesized ==
  (last.op = "item" /\ returned.k = "record") =>
    /\ returned.record.f["_created"] = Date(now)
    /\ returned.record.f["_updated"] = Date(now)
    /\ returned.record.f["_type"] = entityName

\* C16 (amended): on construction a reserved attribute is synthesized (the
\* construction timestamp, the schema name) only when the input data does
\* not contain it; a reserved attribute of the input data is kept.
C16_CallerReservedKept ==
  /\ initial.f["_created"] = Date(0)
  /\ initial.f["_updated"] = Date(0)
  /\ initial.f["_type"] = entityName
  /\ (last.op = "item" /\ returned.k = "record") =>
       LET data == unmarshallItem(last.v.f)
       IN /\ \A a \in Reserved \cap DOMAIN data : returned.record.f[a] = data[a]
          /\ \A a \in {"_created", "_updated"} \ DOMAIN data :
               returned.record.f[a] = Date(now)
          /\ returned.record.f["_type"] = entityName

C16_Witness ==
  /\ last.op = "item"
  /\ returned.k = "record"
  /\ now > 0
  /\ returned.record.f["_created"] = Date(0 - 2)
  /\ returned.record.f["_updated"] = Date(0 - 1)

\* C17: a record materialised from a store result is built with the entity
\* constructor the table registers under the item's _type (an item without
\* _type or of an unknown type is an error, no item gives null), and its
\* _created, _updated and _type are the stored values, dates unmarshalled,
\* not the time of materialisation.
C17_MaterialisedKeepsStored ==
  last.op = "item" =>
    IF last.v = NoItem
    THEN returned = Null
    ELSE LET item == last.v.f
         IN IF "_type" \in DOMAIN item /\ item["_type"] = entityName
            THEN /\ returned.k = "record"
                 /\ returned.record.f["_type"] = item["_type"]
                 /\ returned.metaData = [changes |-> NoProps, attrDeps |-> attrDepsOf(computed)]
                 /\ TopGet(returned.record, "pk") = Cat(item["login"])
                 /\ \A a \in {"_created", "_updated"} \cap DOMAIN item :
                      /\ returned.record.f[a] = Date(item[a].t)
                      /\ returned.record.f[a] # Date(now)
            ELSE returned = Thrown

C17_Witness ==
  /\ last.op = "item"
  /\ last.v = Obj(StoredItem)
  /\ now = MaxTime
  /\ returned.k = "record"
  /\ returned.record.f["_updated"] = Date(0 - 1)
  /\ TopGet(returned.record, "sk") = Email(P(1))

\* C13: two tracked records built by the same entity constructor track
\* independently: a mutation of one record, top-level or nested, changes
\* neither the other record's changes nor the patch calculateUpdateData
\* returns for the other record.
C13_RecordsIsolated ==
  [][\A r \in Ids :
       (pair'.by # r) =>
         /\ pair'.meta[r].changes = pair.meta[r].changes
         /\ calculateUpdateData(pair'.view[r], pair'.meta[r])
              = calculateUpdateData(pair.view[r], pair.meta[r])]_vars

\* C21: when a write or a delete happens, through the tracked record, inside
\* a nested container owned by the top-level attribute A, every computed
\* attribute with A in its dependsOn is marked Updated in changes, as for a
\* direct write to A.
C21_NestedMutationFansOut ==
  (last.op \in {"set", "delete"} /\ last.ok /\ last.trap /\ Len(last.path) > 1) =>
    \A c \in ComputedKeys :
      last.path[1] \in computed[c] =>
        /\ c \in DOMAIN metaData.changes
        /\ metaData.changes[c] = "Updated"

\* C22: a computed attribute is a key of changes only with status Updated
\* and only if a top-level attribute of its dependsOn list is itself a key
\* of changes; a mutation of a nested field that has the name of a
\* dependency source does not mark the computed attribute.
C22_ComputedMarkedOnlyByDependency ==
  \A c \in ComputedKeys \cap DOMAIN metaData.changes :
    /\ metaData.changes[c] = "Updated"
    /\ \E d \in computed[c] : d \in DOMAIN metaData.changes

\* The step is an element operation on a proxied array: push, pop, splice,
\* or an assignment to an index.
ElementOp ==
  /\ last'.ok
  /\ \/ last'.op \in {"push", "pop", "splice"}
     \/ /\ last'.op = "set"
        /\ last'.trap
        /\ Len(last'.path) = 2
        /\ ValAt(record, Front(last'.path)).k = "arr"

\* C23: an element operation on an array-valued attribute (push, pop,
\* splice, index assignment) adds no key to changes but the top-level
\* attribute's name, and what it records is the status Updated of that
\* attribute: no key length, no index key, no Removed status.
C23_ElementOpMarksOnlyAttribute ==
  [][ElementOp =>
       \/ metaData'.changes = metaData.changes
       \/ /\ (DOMAIN metaData'.changes) \ (DOMAIN metaData.changes) \subseteq {last'.path[1]}
          /\ last'.path[1] \in DOMAIN metaData'.changes
          /\ metaData'.changes[last'.path[1]] = "Updated"]_vars

\* C28: every operation through the tracked record that changes the
\* contents of an array-valued attribute marks the attribute Updated,
\* shortening the array by an assignment to its length included.
C28_ArrayChangeMarksAttribute ==
  [][(/\ last'.op \in {"push", "pop", "splice", "length"}
      /\ ValAt(record', last'.path) # ValAt(record, last'.path))
     => /\ last'.path[1] \in DOMAIN metaData'.changes
        /\ metaData'.changes[last'.path[1]] = "Updated"]_vars

RECURSIVE DatesUnwrapped(_)
\* In the value v no date is behind a proxy, at any depth.
DatesUnwrapped(v) ==
  CASE v.k = "date" -> ~v.w
    [] v.k = "obj" -> \A x \in DOMAIN v.f : DatesUnwrapped(v.f[x])
    [] v.k = "arr" -> \A i \in DOMAIN v.e : DatesUnwrapped(v.e[i])
    [] OTHER -> TRUE

RECURSIVE ContainersWrapped(_)
\* In the value v every object and every array is behind a proxy.
ContainersWrapped(v) ==
  CASE v.k = "obj" -> v.w /\ \A x \in DOMAIN v.f : ContainersWrapped(v.f[x])
    [] v.k = "arr" -> v.w /\ \A i \in DOMAIN v.e : ContainersWrapped(v.e[i])
    [] OTHER -> TRUE

\* C24: wrapping at construction wraps no date, at any position (top-level
\* attribute, field of a nested object, element of an array), and wraps
\* every nested object and array.
C24_DatesNeverWrapped ==
  /\ DatesUnwrapped(initial)
  /\ ContainersWrapped(initial)

\* C25: a top-level attribute that has been deleted and not assigned again
\* at the top level is listed in remove by every later patch, also after an
\* edit made through a reference to its nested container that was taken
\* before the delete.
C25_DeletedStaysRemoved ==
  \A a \in DOMAIN hist :
    (/\ a \notin ComputedKeys
     /\ \/ hist[a].op = "delete"
        \/ hist[a].op = "stale" /\ hist[a].prev = "delete")
    => a \in Patch.remove

\* C26: after any sequence of mutations the patch names no attribute in
\* both set and remove.
C26_SetAndRemoveDisjoint ==
  (DOMAIN Patch.set) \cap Patch.remove = {}

C26_Witness ==
  /\ DOMAIN Patch.set # {}
  /\ Patch.remove # {}
  /\ \E a \in DOMAIN hist : hist[a].prev = "set" /\ hist[a].op = "delete"
  /\ \E a \in DOMAIN hist : hist[a].prev = "delete" /\ hist[a].op = "set"

\* C27: the key set of changes only grows: no write, delete, failed write,
\* calculateUpdateData call, Table.put or Table.update takes an entry out
\* of changes; an entry only switches between Updated and Removed.
C27_ChangesKeysOnlyGrow ==
  [][/\ (DOMAIN metaData.changes) \subseteq (DOMAIN metaData'.changes)
     /\ \A a \in DOMAIN metaData'.changes : metaData'.changes[a] \in {"Updated", "Removed"}]_vars

C27_Witness ==
  /\ last.op = "tablePut"
  /\ {"name", "email", "_created", "_updated"} \subseteq DOMAIN metaData.changes
  /\ metaData.changes["name"] = "Removed"
  /\ hist["name"].prev = "set"
  /\ now = MaxTime

\* C29: constructing a tracked record leaves the caller's input data object
\* as it was at every depth, and a later mutation of a nested object of a
\* tracked record shows neither in the input data object nor in another
\* tracked record constructed from the same input data object.
C29_InputDataUntouched ==
  [][/\ pair'.input = scenario.data
     /\ Len(pair'.path) > 1 =>
          \A r \in Ids \ {pair'.by} : pair'.view[r] = pair.view[r]]_vars

\* C30: a delete of a computed attribute fails like a write to it: the
\* attribute keeps its derived value and the tracking metadata gets no entry,
\* whether or not the record's input data contained the attribute's name.
C30_ComputedDeleteRejected ==
  [][(last'.op = "delete" /\ Len(last'.path) = 1 /\ last'.path[1] \in ComputedKeys)
     => /\ ~last'.ok
        /\ TopGet(record', last'.path[1]) = TopGet(record, last'.path[1])
        /\ metaData'.changes = metaData.changes]_vars

====
